---- MODULE Spec2Model ----
(***************************************************************************)
(* A model of the FirmOctopus firmware reconnaissance tool                 *)
(* (src/octopus_en.py; src/octopus.py is the same program without the      *)
(* nginx and lighttpd probes).  One run of main() is a state machine whose *)
(* steps are main()'s calls, over a bounded extracted-firmware tree.       *)
(*                                                                         *)
(* Text is modelled as sequences of one-character strings, so that         *)
(* str.lower(), Path.suffix, substring tests and the keyword regex are     *)
(* computed, not assumed.                                                  *)
(***************************************************************************)
EXTENDS Integers, Sequences, FiniteSets, TLC

\* ---------------------------------------------------------------- bounds
\* The largest number of directory entries in a modelled tree.
MaxFiles == 2
\* The largest number of context characters on each side of a keyword in a
\* generated line of text.
MaxCtx == 1

\* ------------------------------------------------------------- characters
UpperChars == <<"A","B","C","D","E","F","G","H","I","J","K","L","M","N","O","P","Q","R","S","T","U","V","W","X","Y","Z">>
LowerChars == <<"a","b","c","d","e","f","g","h","i","j","k","l","m","n","o","p","q","r","s","t","u","v","w","x","y","z">>
DigitChars == {"0","1","2","3","4","5","6","7","8","9"}
Range(s) == {s[i] : i \in 1..Len(s)}

\* The NUL byte, b'\x00'.
NUL == "NUL"
\* The ANSI escape sequences, each one element of a rendered text.
RESET == "ESC[0m"
RED == "ESC[91m"

\* str.lower() on one character.
lower_char(c) ==
    IF \E i \in 1..26 : UpperChars[i] = c
    THEN LowerChars[CHOOSE i \in 1..26 : UpperChars[i] = c]
    ELSE c

\* str.lower() / bytes.lower().
lower(s) == [i \in 1..Len(s) |-> lower_char(s[i])]

\* The regex class \w (ASCII letters, digits, underscore).
IsWordChar(c) == c \in Range(UpperChars) \cup Range(LowerChars) \cup DigitChars \cup {"_"}
\* The regex class \s, also what str.strip() removes.
IsSpace(c) == c \in {" ", "\t", "\n", "\r"}
IsDigit(c) == c \in DigitChars

\* `needle in hay` at position i (1-based).
OccursAt(hay, i, needle) ==
    /\ i >= 1
    /\ i + Len(needle) - 1 <= Len(hay)
    /\ \A j \in 1..Len(needle) : hay[i + j - 1] = needle[j]

\* Python's `needle in hay` for str and bytes.
Contains(hay, needle) == \E i \in 1..(Len(hay) + 1) : OccursAt(hay, i, needle)

\* str.rfind(c), 1-based; 0 when absent.
rfind(s, c) ==
    IF \E i \in 1..Len(s) : s[i] = c
    THEN CHOOSE i \in 1..Len(s) : s[i] = c /\ \A j \in (i+1)..Len(s) : s[j] # c
    ELSE 0

\* pathlib's PurePath.suffix: the last dot and what follows it, unless the
\* dot is the name's first or last character.
suffix(name) ==
    LET i == rfind(name, ".")
    IN  IF 1 < i /\ i < Len(name) THEN SubSeq(name, i, Len(name)) ELSE <<>>

\* str.strip().
RECURSIVE lstrip(_)
lstrip(s) == IF s # <<>> /\ IsSpace(Head(s)) THEN lstrip(Tail(s)) ELSE s
RECURSIVE rstrip(_)
rstrip(s) ==
    IF s # <<>> /\ IsSpace(s[Len(s)]) THEN rstrip(SubSeq(s, 1, Len(s) - 1)) ELSE s
strip(s) == rstrip(lstrip(s))

\* ------------------------------------------------------ program constants
MAX_WIDTH == 100
blocksize == 1024

DEFAULT_CONFIG_KEYWORDS == << <<"a","d","m","i","n">>, <<"r","o","o","t",":">>, <<"p","a","s","s","w","d">> >>

\* Path(__file__).name.lower() of the tool.
SCRIPT_NAME == lower(<<"o","c","t","o","p","u","s","_","e","n",".","p","y">>)

EXCLUDED_SUFFIXES == { <<".","i","d","0">>, <<".","i","d","1">>, <<".","n","a","m">> }

\* mode 0 = grep content, 1 = filename match
CUSTOM_PATTERNS ==
    << [label |-> "Lua",         pat |-> <<".","l","u","a">>,     mode |-> 1],
       [label |-> "Asp",         pat |-> <<".","a","s","p">>,     mode |-> 1],
       [label |-> "Static HTML", pat |-> <<".","h","t","m">>,     mode |-> 1],
       [label |-> "PHP",         pat |-> <<".","p","h","p">>,     mode |-> 1],
       [label |-> "CGI",         pat |-> <<".","c","g","i">>,     mode |-> 1],
       [label |-> "nginx",       pat |-> <<"n","g","i","n","x">>,    mode |-> 1],
       [label |-> "Goahead",     pat |-> <<"g","o","a","h","e","a","d">>,  mode |-> 0],
       [label |-> "lighttpd",    pat |-> <<"l","i","g","h","t","t","p","d">>, mode |-> 0] >>

\* The rule table main() passes to find_files.
patterns ==
    << [label |-> "Web Files",
        exts  |-> << <<".","p","h","p">>, <<".","a","s","p">>, <<".","h","t","m">>, <<".","h","t","m","l">>, <<".","p","y">>, <<".","j","s","p">>,
                     <<".","c","g","i">>, <<".","l","u","a">> >>],
       [label |-> "Common Sensitive Files",
        exts  |-> << <<"p","a","s","s","w","d">>, <<"s","h","a","d","o","w">>, <<".","p","a","s","s","w","d">>, <<".","s","h","a","d","o","w">>,
                     <<"h","t","t","p","d",".","c","o","n","f">>, <<".","e","n","v">> >>] >>

\* truncate(text, width=MAX_WIDTH)
truncate(text) ==
    IF Len(text) <= MAX_WIDTH
    THEN text
    ELSE SubSeq(text, 1, MAX_WIDTH - 3) \o <<".",".",".">>

\* ------------------------------------------------------ the keyword regex
\* (?i)(?<![<>-])\b(admin|root:|passwd)\b(?![<>-])
LookaroundSet == {"<", ">", "-"}

WordAt(s, p) == p >= 1 /\ p <= Len(s) /\ IsWordChar(s[p])

\* \b between positions p and p+1.
WordBoundary(s, p) == WordAt(s, p) # WordAt(s, p + 1)

\* The pattern without its trailing \b(?![<>-]).
pattern_match_at_open_end(s, i, k) ==
    LET e == i + Len(k) - 1
    IN  /\ e <= Len(s)
        /\ i = 1 \/ s[i - 1] \notin LookaroundSet
        /\ WordBoundary(s, i - 1)
        /\ \A j \in 1..Len(k) : lower_char(s[i + j - 1]) = lower_char(k[j])

\* The whole pattern matches at position i with alternative k.
pattern_match_at(s, i, k) ==
    LET e == i + Len(k) - 1
    IN  /\ e <= Len(s)
        /\ i = 1 \/ s[i - 1] \notin LookaroundSet
        /\ WordBoundary(s, i - 1)
        /\ \A j \in 1..Len(k) : lower_char(s[i + j - 1]) = lower_char(k[j])
        /\ WordBoundary(s, e)
        /\ e = Len(s) \/ s[e + 1] \notin LookaroundSet

\* The length matched at position i (0: no match): the first alternative, in
\* the order of the keywords, with which the whole pattern matches.
pattern_match_len(s, i, keywords) ==
    IF \E n \in 1..Len(keywords) : pattern_match_at(s, i, keywords[n])
    THEN Len(keywords[CHOOSE n \in 1..Len(keywords) :
                 /\ pattern_match_at(s, i, keywords[n])
                 /\ \A m \in 1..(n - 1) : ~pattern_match_at(s, i, keywords[m])])
    ELSE 0

\* pattern.search(line)
pattern_search(s, keywords) ==
    \E i \in 1..Len(s) : pattern_match_len(s, i, keywords) > 0

\* pattern.sub(lambda m: COLORS['red'] + m.group(0) + RESET, snippet):
\* leftmost, non-overlapping matches.
RECURSIVE pattern_sub_from(_, _, _)
pattern_sub_from(s, i, keywords) ==
    LET starts == {j \in i..Len(s) : pattern_match_len(s, j, keywords) > 0}
    IN  IF starts = {} THEN SubSeq(s, i, Len(s))
        ELSE LET j == CHOOSE m \in starts : \A o \in starts : m <= o
                 n == pattern_match_len(s, j, keywords)
             IN  SubSeq(s, i, j - 1)
                 \o <<RED>> \o SubSeq(s, j, j + n - 1) \o <<RESET>>
                 \o pattern_sub_from(s, j + n, keywords)
pattern_sub(s, keywords) == pattern_sub_from(s, 1, keywords)


\* ------------------------------------------------- the extracted firmware
\* A directory entry that os.walk lists among `filenames` (any entry that is
\* not a directory):
\*   dir      the directory's components below the root,
\*   name     the entry's name,
\*   kind     "regular"; "dangling" (a symbolic link to nothing: stat and
\*            open raise); "socket" (stat succeeds, open raises),
\*   xbit     st_mode & 0o111 is non-zero,
\*   readable open() is permitted,
\*   lines    the content, one element per line (each ends with a newline).
\* A FIFO is left out: open() on it blocks until a writer appears.
root == <<"f","w">>

Entry(dir, name, kind, xbit, readable, lines) ==
    [dir |-> dir, name |-> name, kind |-> kind, xbit |-> xbit,
     readable |-> readable, lines |-> lines]

RECURSIVE join_path(_, _)
join_path(base, parts) ==
    IF parts = <<>> THEN base
    ELSE join_path(base \o <<"/">> \o Head(parts), Tail(parts))

\* Path(dirpath) / name, as os.walk(root) yields dirpath.
dirpath(e) == join_path(root, e.dir)
str_path(e) == dirpath(e) \o <<"/">> \o e.name

\* os.path.basename(dirpath)
basename_dir(e) == IF e.dir = <<>> THEN root ELSE e.dir[Len(e.dir)]

\* path.stat() returns (does not raise).
CanStat(e) == e.kind # "dangling"
\* open(path) returns (does not raise).
CanOpen(e) == e.kind = "regular" /\ e.readable

\* read_bytes() / read_text(errors='ignore'): the lines, newline-terminated.
RECURSIVE file_text(_)
file_text(ls) ==
    IF ls = <<>> THEN <<>> ELSE Head(ls) \o <<"\n">> \o file_text(Tail(ls))

\* The lines a text-mode iteration of the file yields.
file_lines(e) == [i \in 1..Len(e.lines) |-> e.lines[i] \o <<"\n">>]

\* is_binary_file(filepath, blocksize=1024)
is_binary_file(e) ==
    IF ~CanOpen(e) THEN FALSE
    ELSE LET data == file_text(e.lines)
         IN  \E i \in 1..Len(data) : i <= blocksize /\ data[i] = NUL

\* lower_name == SCRIPT_NAME or ext in EXCLUDED_SUFFIXES: the test every
\* pass makes before it looks at an entry.
skipped(e) ==
    \/ lower(e.name) = SCRIPT_NAME
    \/ lower(suffix(e.name)) \in EXCLUDED_SUFFIXES

\* Sequence helpers.
RECURSIVE SeqMap(_, _)
SeqMap(F(_), s) == IF s = <<>> THEN <<>> ELSE <<F(Head(s))>> \o SeqMap(F, Tail(s))
RECURSIVE SeqConcat(_)
SeqConcat(ss) == IF ss = <<>> THEN <<>> ELSE Head(ss) \o SeqConcat(Tail(ss))

\* ------------------------------------------------------------- find_files
\* The inner loop over one rule's patterns: some pattern equals the
\* lowercased name or the lowercased extension.
rule_matches(e, exts) ==
    \E i \in 1..Len(exts) :
        \/ lower(e.name) = lower(exts[i])
        \/ lower(suffix(e.name)) = lower(exts[i])

\* find_files without the `continue` of the filter.
find_files_unfiltered(t, pats) ==
    [i \in 1..Len(pats) |->
        LET Hit(e) == rule_matches(e, pats[i].exts)
        IN  SeqMap(str_path, SelectSeq(t, Hit))]

find_files(t, pats) ==
    [i \in 1..Len(pats) |->
        LET Hit(e) == ~skipped(e) /\ rule_matches(e, pats[i].exts)
        IN  SeqMap(str_path, SelectSeq(t, Hit))]

\* ------------------------------------------------------ find_init_scripts
find_init_scripts(t) ==
    LET Hit(e) == basename_dir(e) = <<"i","n","i","t",".","d">> /\ ~skipped(e)
    IN  SeqMap(str_path, SelectSeq(t, Hit))

\* ---------------------------------------------------- find_httpd_services
httpd_keywords == << <<"c","g","i","M","a","i","n">>, <<"h","t","t","p","d","_","i","n","i","t">>, <<"w","e","b","s","F","o","r","m","D","e","f","i","n","e">>, <<"h","a","n","d","l","e","_","r","e","q","u","e","s","t">> >>

\* The else branch: read_text, then the keyword loop; an exception skips
\* the entry.
httpd_content_hit(e) ==
    /\ CanOpen(e)
    /\ \E i \in 1..Len(httpd_keywords) : Contains(file_text(e.lines), httpd_keywords[i])

\* The content test made only for names without 'httpd'.
httpd_entry_hit_by_name(e) ==
    IF Contains(lower(e.name), <<"h","t","t","p","d">>)
    THEN CanStat(e) /\ e.xbit /\ is_binary_file(e)
    ELSE httpd_content_hit(e)

\* The body of the try for one entry: TRUE when the path is added.
httpd_entry_hit(e) ==
    IF Contains(lower(e.name), <<"h","t","t","p","d">>)
    THEN IF ~CanStat(e) THEN FALSE
         ELSE IF e.xbit /\ is_binary_file(e) THEN TRUE
         ELSE httpd_content_hit(e)
    ELSE httpd_content_hit(e)

find_httpd_services(t) ==
    {str_path(t[i]) : i \in {j \in 1..Len(t) : ~skipped(t[j]) /\ httpd_entry_hit(t[j])}}

\* --------------------------------------------------- detect_user_keywords
excluded_exts == { <<".","j","s">>, <<".","s","h","t","m","l">>, <<".","h","t","m","l">>, <<".","x","m","l">>, <<".","a","s","p">>, <<".","h","t","m">>, <<".","a","s","p","x">> }

keyword_skipped(e) ==
    \/ lower(e.name) = SCRIPT_NAME
    \/ lower(suffix(e.name)) \in excluded_exts
    \/ lower(suffix(e.name)) \in EXCLUDED_SUFFIXES

\* The hit of one matching line: (str(path), num, snippet).
keyword_hit(e, num, line, keywords) ==
    [path |-> str_path(e), num |-> num,
     snippet |-> pattern_sub(truncate(strip(line)), keywords)]

\* The hits of one entry, in line order.
file_hits(e, keywords) ==
    IF keyword_skipped(e) \/ ~CanOpen(e) \/ is_binary_file(e) THEN <<>>
    ELSE LET ls == file_lines(e)
             nums == {n \in 1..Len(ls) : pattern_search(ls[n], keywords)}
             RECURSIVE collect(_)
             collect(n) ==
                 IF n > Len(ls) THEN <<>>
                 ELSE (IF n \in nums THEN <<keyword_hit(e, n, ls[n], keywords)>> ELSE <<>>)
                      \o collect(n + 1)
         IN  collect(1)

detect_user_keywords(t, keywords) ==
    LET H(e) == file_hits(e, keywords)
    IN  SeqConcat(SeqMap(H, t))

\* -------------------------------------------------- detect_custom_patterns
\* The body of the try for one entry and one rule: TRUE sets found.
custom_entry_hit(e, rule) ==
    IF rule.mode = 1 /\ Contains(lower(e.name), lower(rule.pat)) THEN TRUE
    ELSE IF rule.mode = 0
         THEN CanOpen(e) /\ Contains(lower(file_text(e.lines)), lower(rule.pat))
         ELSE FALSE

\* The walk for one rule that stops after its first entry, found or not.
custom_found_first_entry(t, rule) ==
    t # <<>> /\ ~skipped(Head(t)) /\ custom_entry_hit(Head(t), rule)

\* The walk for one rule, stopping at the first entry that sets found.
RECURSIVE custom_found(_, _)
custom_found(t, rule) ==
    IF t = <<>> THEN FALSE
    ELSE IF ~skipped(Head(t)) /\ custom_entry_hit(Head(t), rule) THEN TRUE
    ELSE custom_found(Tail(t), rule)

RECURSIVE detect_custom_patterns(_, _)
detect_custom_patterns(t, rules) ==
    IF rules = <<>> THEN <<>>
    ELSE (IF custom_found(t, Head(rules)) THEN <<Head(rules).label>> ELSE <<>>)
         \o detect_custom_patterns(t, Tail(rules))


\* ------------------------------------------------------ external processes
\* What subprocess.run(...) can do: the process ran to its normal end;
\* the executable is missing (run raises); the process was killed before it
\* wrote anything; it wrote bytes that are not valid text before its output.
ProcOutcomes == {"ran", "missing_executable", "killed", "undecodable"}
\* strings writes ASCII only: its output always decodes.
StringsOutcomes == ProcOutcomes \ {"undecodable"}

\* A byte that bytes.decode(errors='ignore') drops.
INVALID == "INVALID"
decode_ignore(bs) == LET Valid(c) == c # INVALID IN SelectSeq(bs, Valid)

\* The captured stdout of a process that would print `output`.
proc_stdout(outcome, output) ==
    CASE outcome = "ran" -> output
      [] outcome = "undecodable" -> <<INVALID>> \o output
      [] OTHER -> <<>>

\* strings(1): the runs of at least 4 printable characters, one per line.
IsPrintable(c) == c \notin {NUL, INVALID, "\n", "\r"}
RECURSIVE strings_from(_, _)
strings_from(data, i) ==
    IF i > Len(data) THEN <<>>
    ELSE LET stops == {j \in i..Len(data) : ~IsPrintable(data[j])}
             e     == IF stops = {} THEN Len(data) + 1
                      ELSE CHOOSE m \in stops : \A o \in stops : m <= o
             run   == SubSeq(data, i, e - 1)
         IN  (IF Len(run) >= 4 THEN run \o <<"\n">> ELSE <<>>)
             \o strings_from(data, e + 1)
strings_output(e) == IF CanOpen(e) THEN strings_from(file_text(e.lines), 1) ELSE <<>>

\* The index after the longest run of characters in class P from i on.
RECURSIVE span(_, _, _)
span(P(_), s, i) == IF i <= Len(s) /\ P(s[i]) THEN span(P, s, i + 1) ELSE i

\* re.search(r"SERVER_ADDR\s+(\d+\.\d+\.\d+)\s+SERVER_SOFTWARE", text) at
\* position i: <<group(1)>> when it matches there, <<>> when not.
version_match_at(s, i) ==
    LET a == i + Len(<<"S","E","R","V","E","R","_","A","D","D","R">>)
        b == span(IsSpace, s, a)
        c == span(IsDigit, s, b)
        d == span(IsDigit, s, c + 1)
        f == span(IsDigit, s, d + 1)
        g == span(IsSpace, s, f)
    IN  IF /\ OccursAt(s, i, <<"S","E","R","V","E","R","_","A","D","D","R">>)
           /\ b > a
           /\ c > b /\ c <= Len(s) /\ s[c] = "."
           /\ d > c + 1 /\ d <= Len(s) /\ s[d] = "."
           /\ f > d + 1
           /\ g > f
           /\ OccursAt(s, g, <<"S","E","R","V","E","R","_","S","O","F","T","W","A","R","E">>)
        THEN <<SubSeq(s, b, f - 1)>>
        ELSE <<>>

\* Python's None, and a value v that is not None.
None == <<>>
Some(v) == <<v>>
\* `if x:` for x None or a str.
truthy(x) == x # None /\ x[1] # <<>>

version_search(text) ==
    IF \E i \in 1..Len(text) : version_match_at(text, i) # <<>>
    THEN version_match_at(text,
             CHOOSE i \in 1..Len(text) :
                 /\ version_match_at(text, i) # <<>>
                 /\ \A j \in 1..(i - 1) : version_match_at(text, j) = <<>>)
    ELSE None

\* res.returncode, which main() and extract_goahead_version never read:
\* strings exits 1 when it cannot open its file; grep exits 2 when it could
\* not read some file, else 0 when it listed a file and 1 when it did not;
\* a killed process has a negative return code.
strings_returncode(so, outcome) ==
    IF outcome = "killed" THEN -9
    ELSE IF CanOpen(so) THEN 0 ELSE 1
grep_returncode(t, output, outcome) ==
    IF outcome = "killed" THEN -9
    ELSE IF \E i \in 1..Len(t) : t[i].kind = "regular" /\ ~t[i].readable THEN 2
    ELSE IF output = <<>> THEN 1 ELSE 0

\* so_path.is_file() for so_path = root/usr/lib/libWebs.so
is_libwebs(e) ==
    /\ e.dir = << <<"u","s","r">>, <<"l","i","b">> >>
    /\ e.name = <<"l","i","b","W","e","b","s",".","s","o">>
    /\ e.kind = "regular"

\* extract_goahead_version(root), the strings process ending as `outcome`.
extract_goahead_version(t, outcome) ==
    IF ~\E i \in 1..Len(t) : is_libwebs(t[i]) THEN None
    ELSE IF outcome = "missing_executable" THEN None
    ELSE LET so == t[CHOOSE i \in 1..Len(t) : is_libwebs(t[i])]
             text == decode_ignore(proc_stdout(outcome, strings_output(so)))
         IN  version_search(text)

\* grep -l over the tree: the paths of the files with a line that
\* contains pat; -i ignores case, -I passes over binary files.
grep_output(t, pat, ignore_case, skip_binary) ==
    LET Fold(l) == IF ignore_case THEN lower(l) ELSE l
        Match(e) ==
            /\ CanOpen(e)
            /\ ~(skip_binary /\ Contains(file_text(e.lines), <<NUL>>))
            /\ \E n \in 1..Len(e.lines) : Contains(Fold(e.lines[n]), Fold(pat))
        Line(e) == str_path(e) \o <<"\n">>
    IN  SeqConcat(SeqMap(Line, SelectSeq(t, Match)))

\* str.splitlines(), the empty lines dropped:
\* [f for f in text.splitlines() if f]
RECURSIVE splitlines_from(_, _)
splitlines_from(text, i) ==
    IF i > Len(text) THEN <<>>
    ELSE LET breaks == {j \in i..Len(text) : text[j] \in {"\n", "\r"}}
             e      == IF breaks = {} THEN Len(text) + 1
                       ELSE CHOOSE m \in breaks : \A o \in breaks : m <= o
             cur    == SubSeq(text, i, e - 1)
         IN  (IF cur # <<>> THEN <<cur>> ELSE <<>>)
             \o splitlines_from(text, e + 1)
nonempty_lines(text) == splitlines_from(text, 1)

\* The try/except around a grep probe in main(): the list `files`.
grep_probe(t, pat, ignore_case, skip_binary, outcome) ==
    IF outcome = "missing_executable" THEN <<>>
    ELSE nonempty_lines(decode_ignore(
             proc_stdout(outcome, grep_output(t, pat, ignore_case, skip_binary))))

nginx_probe(t, outcome) == grep_probe(t, <<"l","o","c","a","t","i","o","n"," ","/">>, TRUE, FALSE, outcome)
lighttpd_probe(t, outcome) == grep_probe(t, <<"a","u","t","h",".","r","e","q","u","i","r","e">>, FALSE, TRUE, outcome)

\* The subprocess.run call of a probe, as the run records it.
NotRun == [outcome |-> "not_run", returncode |-> None]
Ran(outcome, code) ==
    [outcome |-> outcome,
     returncode |-> IF outcome = "missing_executable" THEN None ELSE Some(code)]
goahead_proc(t, outcome) ==
    IF ~\E i \in 1..Len(t) : is_libwebs(t[i]) THEN NotRun
    ELSE Ran(outcome,
             strings_returncode(t[CHOOSE i \in 1..Len(t) : is_libwebs(t[i])], outcome))
nginx_proc(t, outcome) ==
    Ran(outcome, grep_returncode(t, grep_output(t, <<"l","o","c","a","t","i","o","n"," ","/">>, TRUE, FALSE), outcome))
lighttpd_proc(t, outcome) ==
    Ran(outcome, grep_returncode(t, grep_output(t, <<"a","u","t","h",".","r","e","q","u","i","r","e">>, FALSE, TRUE), outcome))


\* ------------------------------------------------------------------ state
VARIABLES
    tree,             \* the non-directory entries of the tree, in os.walk order
    pc,               \* main()'s position
    results,          \* find_files' lists, by rule index
    init_scripts,
    httpd_services,
    user_hits,
    custom_hits,
    goahead_version,
    files,            \* the `files` list of each grep probe that ran
    calls,            \* how often each deepening probe was dispatched
    proc,             \* how each probe's external process ended
    walks,            \* the os.walk(root) calls started so far
    out               \* what was printed, in order

vars == <<tree, pc, results, init_scripts, httpd_services, user_hits,
          custom_hits, goahead_version, files, calls, proc, walks, out>>

ProbeLabels == {"Goahead", "nginx", "lighttpd"}

\* The directory entries the modelled trees are built from.
Pool ==
    { Entry(<<>>, <<"o","c","t","o","p","u","s","_","e","n",".","p","y">>, "regular", TRUE, TRUE,
            << <<"g","r","e","p"," ","-","r","i","l"," ","l","o","c","a","t","i","o","n"," ","/"," ","r","o","o","t">>, <<"k","e","y","w","o","r","d","s",":"," ","a","d","m","i","n"," ","p","a","s","s","w","d">> >>),
      Entry(<< <<"w","w","w">> >>, <<"i","n","d","e","x",".","p","h","p">>, "regular", FALSE, TRUE,
            << <<"u","s","e","r"," ","="," ","a","d","m","i","n"," ",";">> >>),
      Entry(<< <<"w","w","w">> >>, <<"I","N","D","E","X",".","H","T","M","L">>, "regular", FALSE, TRUE,
            << <<"<","b",">","a","d","m","i","n","<","/","b",">">> >>),
      Entry(<< <<"w","w","w">> >>, <<".","p","h","p">>, "regular", FALSE, TRUE, <<>>),
      Entry(<< <<"w","w","w">> >>, <<"o","l","d",".","a","s","p">>, "dangling", FALSE, TRUE, <<>>),
      Entry(<< <<"e","t","c">> >>, <<"p","a","s","s","w","d">>, "regular", FALSE, TRUE,
            << <<"r","o","o","t",":","x",":","0",":","0">> >>),
      Entry(<< <<"e","t","c">> >>, <<"s","h","a","d","o","w">>, "regular", FALSE, FALSE,
            << <<"a","d","m","i","n"," ","g","o","a","h","e","a","d">> >>),
      Entry(<< <<"e","t","c">>, <<"i","n","i","t",".","d">> >>, <<"S","5","0","h","t","t","p","d">>, "regular", TRUE, TRUE,
            << <<"h","t","t","p","d","_","i","n","i","t"," ","&">> >>),
      Entry(<< <<"e","t","c">>, <<"i","n","i","t",".","d">> >>, <<"c","t","l">>, "socket", FALSE, TRUE, <<>>),
      Entry(<< <<"u","s","r">>, <<"b","i","n">> >>, <<"h","t","t","p","d">>, "regular", TRUE, TRUE,
            << <<"E", "L", "F", NUL>> \o <<"c","g","i","M","a","i","n">> >>),
      Entry(<< <<"u","s","r">>, <<"b","i","n">> >>, <<"u","h","t","t","p","d">>, "regular", FALSE, TRUE,
            << <<"E", "L", "F", NUL>> >>),
      Entry(<< <<"e","t","c">> >>, <<"n","g","i","n","x",".","c","o","n","f">>, "regular", FALSE, TRUE,
            << <<"L","o","c","a","t","i","o","n"," ","/"," ","{">> >>),
      Entry(<< <<"u","s","r">>, <<"b","i","n">> >>, <<"n","g","i","n","x">>, "dangling", FALSE, TRUE, <<>>),
      Entry(<< <<"b","i","n">> >>, <<"h","t","t","p","d","_","g","o","a","h","e","a","d",".","b","i","n">>, "regular", FALSE, TRUE,
            << <<"G","o","a","h","e","a","d">> >>),
      Entry(<< <<"u","s","r">>, <<"l","i","b">> >>, <<"l","i","b","W","e","b","s",".","s","o">>, "regular", FALSE, TRUE,
            << <<NUL>> \o <<"S","E","R","V","E","R","_","A","D","D","R">>, <<"2",".","1",".","8">>, <<"S","E","R","V","E","R","_","S","O","F","T","W","A","R","E">> >>),
      Entry(<< <<"u","s","r">>, <<"l","i","b">> >>, <<"l","i","b","W","e","b","s",".","s","o">>, "regular", FALSE, TRUE,
            << <<"G","o","A","h","e","a","d"," ","S","E","R","V","E","R","_","A","D","D","R">> >>),
      Entry(<< <<"e","t","c">> >>, <<"l","i","g","h","t","t","p","d",".","c","o","n","f">>, "regular", FALSE, TRUE,
            << <<"#"," ","l","i","g","h","t","t","p","d">>, <<"a","u","t","h",".","r","e","q","u","i","r","e"," ","="," ","(">> >>),
      Entry(<< <<"d","b">> >>, <<"f","w",".","i","d","0">>, "regular", FALSE, TRUE,
            << <<"a","d","m","i","n"," ","l","i","g","h","t","t","p","d">> >>) }

\* A walk order: no path twice, the entries of one directory together.
IsWalk(t) ==
    /\ \A i, j \in 1..Len(t) : i # j => str_path(t[i]) # str_path(t[j])
    /\ \A i, j, k \in 1..Len(t) :
           i < j /\ j < k /\ t[i].dir = t[k].dir => t[j].dir = t[i].dir

Trees ==
    UNION { {t \in [1..n -> Pool] : IsWalk(t)} : n \in 0..MaxFiles }

NoFiles == [l \in {"nginx", "lighttpd"} |-> <<>>]

\* The state main() starts its passes in.
Start(t) ==
    /\ tree = t
    /\ results = [i \in 1..Len(patterns) |-> <<>>]
    /\ init_scripts = <<>>
    /\ httpd_services = {}
    /\ user_hits = <<>>
    /\ custom_hits = <<>>
    /\ goahead_version = None
    /\ files = NoFiles
    /\ calls = [l \in ProbeLabels |-> 0]
    /\ proc = [l \in ProbeLabels |-> NotRun]
    /\ walks = 0
    /\ out = <<>>

Init == pc = "find_files" /\ \E t \in Trees : Start(t)

\* ----------------------------------------------------------------- output
Progress(pass) == [kind |-> "progress", text |-> pass]

or_none(lines) == IF lines = <<>> THEN << <<"N","o","n","e">> >> ELSE lines

\* print_section(title, lines): the header, then each line truncated.
print_section(title, lines) ==
    [kind |-> "section", title |-> title, lines |-> SeqMap(truncate, lines)]

\* print_httpd_services(services); the order of list(set) is walk order here.
print_httpd_services(t, services) ==
    LET In(e) == str_path(e) \in services
    IN  print_section("HTTPD Services", or_none(SeqMap(str_path, SelectSeq(t, In))))

\* print_user_hits(hits): a row for each of hits or [('None', '', '')].
print_user_hits(hits) ==
    LET Row(h) == [path |-> truncate(h.path), num |-> h.num, snippet |-> h.snippet]
        rows == IF hits = <<>>
                THEN << [path |-> <<"N","o","n","e">>, num |-> <<>>, snippet |-> <<>>] >>
                ELSE hits
    IN  [kind |-> "hits", title |-> "Config Recon", lines |-> SeqMap(Row, rows)]

\* ---------------------------------------------------------------- main()
\* results = find_files(root, patterns)
FindFiles ==
    /\ pc = "find_files"
    /\ results' = find_files(tree, patterns)
    /\ walks' = walks + 1
    /\ out' = Append(out, Progress("Scanning Web files and sensitive files"))
    /\ pc' = "find_init_scripts"
    /\ UNCHANGED <<tree, init_scripts, httpd_services, user_hits, custom_hits,
                   goahead_version, files, calls, proc>>

\* init_scripts = find_init_scripts(root)
FindInitScripts ==
    /\ pc = "find_init_scripts"
    /\ init_scripts' = find_init_scripts(tree)
    /\ walks' = walks + 1
    /\ out' = Append(out, Progress("Scanning init.d startup scripts"))
    /\ pc' = "find_httpd_services"
    /\ UNCHANGED <<tree, results, httpd_services, user_hits, custom_hits,
                   goahead_version, files, calls, proc>>

\* httpd_services = find_httpd_services(root)
FindHttpdServices ==
    /\ pc = "find_httpd_services"
    /\ httpd_services' = find_httpd_services(tree)
    /\ walks' = walks + 1
    /\ out' = Append(out, Progress("Scanning HTTPD service files"))
    /\ pc' = "detect_user_keywords"
    /\ UNCHANGED <<tree, results, init_scripts, user_hits, custom_hits,
                   goahead_version, files, calls, proc>>

\* user_hits = detect_user_keywords(root)
DetectUserKeywords ==
    /\ pc = "detect_user_keywords"
    /\ user_hits' = detect_user_keywords(tree, DEFAULT_CONFIG_KEYWORDS)
    /\ walks' = walks + 1
    /\ out' = Append(out, Progress("Detecting configuration keywords"))
    /\ pc' = "detect_custom_patterns"
    /\ UNCHANGED <<tree, results, init_scripts, httpd_services, custom_hits,
                   goahead_version, files, calls, proc>>

\* One walk shared by all the rules.
custom_walks_shared(rules) == 1

\* The os.walk(root) calls detect_custom_patterns starts: the walk is the
\* loop inside the loop over the rules, so each rule starts its own, and a
\* walk is started whether or not the tree has an entry.
custom_walks(rules) == Len(rules)

\* custom_hits = detect_custom_patterns(root, CUSTOM_PATTERNS)
DetectCustomPatterns ==
    /\ pc = "detect_custom_patterns"
    /\ custom_hits' = detect_custom_patterns(tree, CUSTOM_PATTERNS)
    /\ walks' = walks + custom_walks(CUSTOM_PATTERNS)
    /\ out' = Append(out, Progress("Performing custom pattern reconnaissance"))
    /\ pc' = "goahead_probe"
    /\ UNCHANGED <<tree, results, init_scripts, httpd_services, user_hits,
                   goahead_version, files, calls, proc>>

InSeq(x, s) == \E i \in 1..Len(s) : s[i] = x

\* The version probe without its gate.
goahead_gate_open(hits) == TRUE

\* The gate of the version probe: 'Goahead' in custom_hits
goahead_gate(hits) == InSeq("Goahead", hits)

\* The route-file probe run for any detected label.
nginx_gate_any_label(hits) == hits # <<>>

\* The gate of the route-file probe: 'nginx' in custom_hits
nginx_gate(hits) == InSeq("nginx", hits)

\* No try/except around the grep probes: a missing executable ends the run.
propagates_uncaught(outcome) == outcome = "missing_executable"

\* The try/except Exception around each grep probe's subprocess.run:
\* whether the exception of `outcome` leaves main().  FileNotFoundError is
\* an Exception, so none does.
propagates(outcome) == FALSE

\* The closing lines with `else` in place of the `elif`.
goahead_report_else(version, hits) ==
    IF truthy(version)
    THEN << [kind |-> "goahead_version", version |-> version[1]] >>
    ELSE << [kind |-> "goahead_notice"] >>

\* The closing lines: if goahead_version: ... elif 'Goahead' in custom_hits: ...
goahead_report(version, hits) ==
    IF truthy(version)
    THEN << [kind |-> "goahead_version", version |-> version[1]] >>
    ELSE IF InSeq("Goahead", hits)
    THEN << [kind |-> "goahead_notice"] >>
    ELSE <<>>

\* if 'Goahead' in custom_hits: goahead_version = extract_goahead_version(root)
GoaheadProbe ==
    /\ pc = "goahead_probe"
    /\ goahead_gate(custom_hits)
    /\ \E outcome \in StringsOutcomes :
           /\ goahead_version' = extract_goahead_version(tree, outcome)
           /\ proc' = [proc EXCEPT !["Goahead"] = goahead_proc(tree, outcome)]
    /\ calls' = [calls EXCEPT !["Goahead"] = @ + 1]
    /\ pc' = "print_sections"
    /\ UNCHANGED <<tree, results, init_scripts, httpd_services, user_hits,
                   custom_hits, files, walks, out>>

GoaheadSkip ==
    /\ pc = "goahead_probe"
    /\ ~goahead_gate(custom_hits)
    /\ pc' = "print_sections"
    /\ UNCHANGED <<tree, results, init_scripts, httpd_services, user_hits,
                   custom_hits, goahead_version, files, calls, proc, walks, out>>

\* The four print_* calls of main().
PrintSections ==
    /\ pc = "print_sections"
    /\ out' = out
              \o [i \in 1..Len(patterns) |->
                     print_section(patterns[i].label, or_none(results[i]))]
              \o << print_section("Init.d Scripts", or_none(init_scripts)),
                    print_httpd_services(tree, httpd_services),
                    print_user_hits(user_hits) >>
    /\ pc' = "summary"
    /\ UNCHANGED <<tree, results, init_scripts, httpd_services, user_hits,
                   custom_hits, goahead_version, files, calls, proc, walks>>

\* if custom_hits: print the summary line
PrintSummary ==
    /\ pc = "summary"
    /\ custom_hits # <<>>
    /\ out' = Append(out, [kind |-> "summary", labels |-> custom_hits])
    /\ pc' = "nginx_probe"
    /\ UNCHANGED <<tree, results, init_scripts, httpd_services, user_hits,
                   custom_hits, goahead_version, files, calls, proc, walks>>

NoSummary ==
    /\ pc = "summary"
    /\ custom_hits = <<>>
    /\ pc' = "goahead_report"
    /\ UNCHANGED <<tree, results, init_scripts, httpd_services, user_hits,
                   custom_hits, goahead_version, files, calls, proc, walks, out>>

\* if 'nginx' in custom_hits: the grep for route files
NginxProbe ==
    /\ pc = "nginx_probe"
    /\ nginx_gate(custom_hits)
    /\ \E outcome \in ProcOutcomes :
           LET fs == nginx_probe(tree, outcome)
           IN  /\ files' = [files EXCEPT !["nginx"] = fs]
               /\ proc' = [proc EXCEPT !["nginx"] = nginx_proc(tree, outcome)]
               /\ out' = IF fs # <<>> /\ ~propagates(outcome)
                         THEN Append(out, [kind |-> "nginx_routes", files |-> fs])
                         ELSE out
               /\ pc' = IF propagates(outcome) THEN "aborted" ELSE "lighttpd_probe"
    /\ calls' = [calls EXCEPT !["nginx"] = @ + 1]
    /\ UNCHANGED <<tree, results, init_scripts, httpd_services, user_hits,
                   custom_hits, goahead_version, walks>>

NginxSkip ==
    /\ pc = "nginx_probe"
    /\ ~nginx_gate(custom_hits)
    /\ pc' = "lighttpd_probe"
    /\ UNCHANGED <<tree, results, init_scripts, httpd_services, user_hits,
                   custom_hits, goahead_version, files, calls, proc, walks, out>>

\* if 'lighttpd' in custom_hits: the grep for permission files, then its section
LighttpdProbe ==
    /\ pc = "lighttpd_probe"
    /\ InSeq("lighttpd", custom_hits)
    /\ \E outcome \in ProcOutcomes :
           LET fs == lighttpd_probe(tree, outcome)
           IN  /\ files' = [files EXCEPT !["lighttpd"] = fs]
               /\ proc' = [proc EXCEPT !["lighttpd"] = lighttpd_proc(tree, outcome)]
               /\ out' = IF propagates(outcome) THEN out
                         ELSE Append(out, print_section("lighttpd Permission Files",
                                                        or_none(fs)))
               /\ pc' = IF propagates(outcome) THEN "aborted" ELSE "goahead_report"
    /\ calls' = [calls EXCEPT !["lighttpd"] = @ + 1]
    /\ UNCHANGED <<tree, results, init_scripts, httpd_services, user_hits,
                   custom_hits, goahead_version, walks>>

LighttpdSkip ==
    /\ pc = "lighttpd_probe"
    /\ ~InSeq("lighttpd", custom_hits)
    /\ pc' = "goahead_report"
    /\ UNCHANGED <<tree, results, init_scripts, httpd_services, user_hits,
                   custom_hits, goahead_version, files, calls, proc, walks, out>>

\* if goahead_version: ... elif 'Goahead' in custom_hits: ...
GoaheadReport ==
    /\ pc = "goahead_report"
    /\ out' = out \o goahead_report(goahead_version, custom_hits)
    /\ pc' = "done"
    /\ UNCHANGED <<tree, results, init_scripts, httpd_services, user_hits,
                   custom_hits, goahead_version, files, calls, proc, walks>>

Next ==
    \/ FindFiles
    \/ FindInitScripts
    \/ FindHttpdServices
    \/ DetectUserKeywords
    \/ DetectCustomPatterns
    \/ GoaheadProbe
    \/ GoaheadSkip
    \/ PrintSections
    \/ PrintSummary
    \/ NoSummary
    \/ NginxProbe
    \/ NginxSkip
    \/ LighttpdProbe
    \/ LighttpdSkip
    \/ GoaheadReport

Spec == Init /\ [][Next]_vars


\* ------------------------------------------- the keyword scan on its own
\* detect_user_keywords applied to one text file whose last line is drawn
\* from a family: a run of dots (none, short of the width, the full width),
\* then a keyword or a near-keyword between up to MaxCtx context characters.
CtxChars == {" ", "-", "<", ">", "X"}
Ctx == UNION { [1..n -> CtxChars] : n \in 0..MaxCtx }
ScanWords == { <<"a","d","m","i","n">>, <<"A","D","M","I","N">>, <<"r","o","o","t",":">>, <<"p","a","s","s","w","d">>, <<"a","d","m","i","x">> }
PadLens == {0, MAX_WIDTH - 10, MAX_WIDTH}
Pad(n) == [i \in 1..n |-> "."]

ScanLines ==
    { Pad(n) \o pre \o w \o post :
        n \in PadLens, pre \in Ctx, w \in ScanWords, post \in Ctx }

ScanTrees ==
    { << Entry(<< <<"e","t","c">> >>, <<"a","p","p",".","c","o","n","f">>, "regular", FALSE, TRUE, head \o <<l>>) >> :
        head \in { <<>>, << <<"#"," ","s","e","t","t","i","n","g","s">> >> }, l \in ScanLines }

InitScan == pc = "detect_user_keywords" /\ \E t \in ScanTrees : Start(t)

NextScan == DetectUserKeywords

SpecScan == InitScan /\ [][NextScan]_vars


\* ================================================================ claims
Entries == Range(tree)
EntryAt(p) == CHOOSE e \in Entries : str_path(e) = p
Lowered(ps) == {lower(ps[i]) : i \in 1..Len(ps)}
OwnFile(e) == lower(e.name) = SCRIPT_NAME
PassedFilter(e) == ~OwnFile(e) /\ lower(suffix(e.name)) \notin EXCLUDED_SUFFIXES

PcOrder ==
    << "find_files", "find_init_scripts", "find_httpd_services",
       "detect_user_keywords", "detect_custom_patterns", "goahead_probe",
       "print_sections", "summary", "nginx_probe", "lighttpd_probe",
       "goahead_report", "done" >>
PcIndex(p) == CHOOSE i \in 1..Len(PcOrder) : PcOrder[i] = p
\* main() has gone past the step named p.
Past(p) == pc \in Range(PcOrder) /\ PcIndex(pc) > PcIndex(p)

\* The rule of find_files' table whose patterns are all extensions.
WebRule == CHOOSE i \in 1..Len(patterns) : patterns[i].label = "Web Files"

\* C1, as stated: every file find_files lists under the extension rule
\* 'Web Files' has an extension that equals, case-insensitively, one of the
\* rule's patterns, and passed the filter (not the tool's own name, no
\* excluded extension).
C1_ListedByExtension ==
    \A p \in Range(results[WebRule]) :
        /\ lower(suffix(EntryAt(p).name)) \in Lowered(patterns[WebRule].exts)
        /\ PassedFilter(EntryAt(p))

\* C1, amended: every file find_files lists under a rule has an extension
\* or a whole name that equals, case-insensitively, one of the rule's
\* patterns, and passed the filter.
C1_ListedByExtensionOrName ==
    \A r \in 1..Len(patterns) : \A p \in Range(results[r]) :
        /\ \/ lower(suffix(EntryAt(p).name)) \in Lowered(patterns[r].exts)
           \/ lower(EntryAt(p).name) \in Lowered(patterns[r].exts)
        /\ PassedFilter(EntryAt(p))

\* A file listed under 'Web Files' for its name, beside one listed for its
\* extension.
C1_Witness ==
    \E p, q \in Range(results[WebRule]) :
        /\ suffix(EntryAt(p).name) = <<>>
        /\ lower(EntryAt(p).name) \in Lowered(patterns[WebRule].exts)
        /\ lower(suffix(EntryAt(q).name)) \in Lowered(patterns[WebRule].exts)

\* The paths of every result set of a run.
ResultPaths ==
    UNION {Range(results[r]) : r \in 1..Len(patterns)}
    \cup Range(init_scripts)
    \cup httpd_services
    \cup {user_hits[i].path : i \in 1..Len(user_hits)}
    \cup Range(files["nginx"])
    \cup Range(files["lighttpd"])

RuleOf(label) ==
    CUSTOM_PATTERNS[CHOOSE i \in 1..Len(CUSTOM_PATTERNS) : CUSTOM_PATTERNS[i].label = label]

\* An entry satisfies a signature rule: NameContains, the pattern is a
\* case-insensitive substring of the name; ContentContains, of the bytes read.
Satisfies(e, rule) ==
    IF rule.mode = 1
    THEN \E i \in 1..Len(e.name) : OccursAt(lower(e.name), i, lower(rule.pat))
    ELSE /\ CanOpen(e)
         /\ \E i \in 1..Len(file_text(e.lines)) :
                OccursAt(lower(file_text(e.lines)), i, lower(rule.pat))

\* C2: the path of the tool's own file is in no result set of a run (the
\* classification lists, the init.d list, the HTTPD services, the keyword
\* hits, the file lists of the nginx and lighttpd probes), and every
\* detected signature label has a witness other than that file.
C2_SelfExclusion ==
    /\ \A e \in Entries : OwnFile(e) => str_path(e) \notin ResultPaths
    /\ \A i \in 1..Len(custom_hits) :
           \E e \in Entries : ~OwnFile(e) /\ Satisfies(e, RuleOf(custom_hits[i]))

\* An occurrence of keyword k in line l at position i, whatever the case.
KeywordAt(l, i, k) ==
    /\ i >= 1 /\ i + Len(k) - 1 <= Len(l)
    /\ lower(SubSeq(l, i, i + Len(k) - 1)) = lower(k)
LetterOrDigit(l, p) == p >= 1 /\ p <= Len(l) /\ IsWordChar(l[p])
Markup(l, p) == p >= 1 /\ p <= Len(l) /\ l[p] \in {"<", ">", "-"}
\* The occurrence is part of a longer word, or touches '<', '>' or '-'.
Excluded(l, i, k) ==
    \/ LetterOrDigit(l, i - 1) \/ LetterOrDigit(l, i + Len(k))
    \/ Markup(l, i - 1) \/ Markup(l, i + Len(k))
\* The line holds 'admin', no other keyword, and every 'admin' in it is
\* excluded.
OnlyExcludedAdmin(l) ==
    /\ \E i \in 1..Len(l) : KeywordAt(l, i, <<"a","d","m","i","n">>)
    /\ \A i \in 1..Len(l) : ~KeywordAt(l, i, <<"r","o","o","t",":">>) /\ ~KeywordAt(l, i, <<"p","a","s","s","w","d">>)
    /\ \A i \in 1..Len(l) : KeywordAt(l, i, <<"a","d","m","i","n">>) => Excluded(l, i, <<"a","d","m","i","n">>)
HitOn(e, n) ==
    \E i \in 1..Len(user_hits) :
        user_hits[i].path = str_path(e) /\ user_hits[i].num = n

\* C3: detect_user_keywords records no hit for a line whose every 'admin'
\* is part of a longer word ('adminXYZ') or touches '<', '>' or '-'
\* ('-admin-').
C3_NoHitOnExcluded ==
    \A e \in Entries : \A n \in 1..Len(e.lines) :
        OnlyExcludedAdmin(e.lines[n]) => ~HitOn(e, n)

\* The scan has run over a file with such a line, and recorded nothing for it.
C3_Witness ==
    /\ Past("detect_user_keywords")
    /\ \E e \in Entries : \E n \in 1..Len(e.lines) :
           /\ OnlyExcludedAdmin(e.lines[n])
           /\ \E i \in 1..Len(e.lines[n]) :
                  KeywordAt(e.lines[n], i, <<"a","d","m","i","n">>) /\ Markup(e.lines[n], i - 1)
           /\ ~keyword_skipped(e) /\ CanOpen(e) /\ ~is_binary_file(e)
           /\ ~HitOn(e, n)

\* A whole-word occurrence that touches none of '<', '>', '-'.
Clean(l, i, k) == KeywordAt(l, i, k) /\ ~Excluded(l, i, k)
HasCleanKeyword(l) ==
    \E i \in 1..Len(l) : \E n \in 1..Len(DEFAULT_CONFIG_KEYWORDS) :
        Clean(l, i, DEFAULT_CONFIG_KEYWORDS[n])
\* The snippet shows some keyword between the highlight's escape codes.
Highlighted(snippet) ==
    \E i \in 1..Len(snippet) : \E n \in 1..Len(DEFAULT_CONFIG_KEYWORDS) :
        LET k == DEFAULT_CONFIG_KEYWORDS[n]
        IN  /\ snippet[i] = RED
            /\ i + Len(k) + 1 <= Len(snippet)
            /\ lower(SubSeq(snippet, i + 1, i + Len(k))) = lower(k)
            /\ snippet[i + Len(k) + 1] = RESET

\* C4: once the scan has run, every line, of any length, of an eligible
\* non-binary file that holds a keyword as a whole word away from '<', '>'
\* and '-' has a hit with its 1-based line number and a snippet that
\* highlights a keyword; and every hit's snippet highlights a keyword.
C4_HitHighlighted ==
    Past("detect_user_keywords") =>
        /\ \A e \in Entries : \A n \in 1..Len(e.lines) :
               (/\ ~keyword_skipped(e) /\ CanOpen(e) /\ ~is_binary_file(e)
                /\ HasCleanKeyword(e.lines[n]))
               => \E i \in 1..Len(user_hits) :
                      /\ user_hits[i].path = str_path(e)
                      /\ user_hits[i].num = n
                      /\ Highlighted(user_hits[i].snippet)
        /\ \A i \in 1..Len(user_hits) : Highlighted(user_hits[i].snippet)

Count(x, s) == Cardinality({i \in 1..Len(s) : s[i] = x})

C6_DeepeningGated ==
    /\ \A l \in ProbeLabels :
           /\ calls[l] <= 1
           /\ calls[l] > 0 => Past("detect_custom_patterns") /\ InSeq(l, custom_hits)
    /\ (~\E e \in Entries : PassedFilter(e) /\ Satisfies(e, RuleOf("Goahead")))
           => calls["Goahead"] = 0

\* A run that dispatched the version probe and the nginx probe.
C6_Witness ==
    /\ calls["Goahead"] = 1
    /\ calls["nginx"] = 1
    /\ calls["lighttpd"] = 0
    /\ pc = "done"

Printed(kind) == Cardinality({i \in 1..Len(out) : out[i].kind = kind})
LibPresent == \E e \in Entries : is_libwebs(e)
\* Some line of the library holds the marker that closes the version.
MarkerPresent ==
    \E e \in Entries :
        /\ is_libwebs(e)
        /\ \E n \in 1..Len(e.lines) : \E i \in 1..Len(e.lines[n]) :
               OccursAt(e.lines[n], i, <<"S","E","R","V","E","R","_","S","O","F","T","W","A","R","E">>)

\* C7: at the end of a run, with 'Goahead' detected and the probe's result
\* absent (as it is when usr/lib/libWebs.so is missing or holds no version
\* marker) the notice was printed exactly once and no version line; with a
\* version found, the version line and no notice; with 'Goahead' not
\* detected, neither.
C7_GoaheadReport ==
    pc = "done" =>
        /\ InSeq("Goahead", custom_hits) /\ ~(LibPresent /\ MarkerPresent)
               => goahead_version = None
        /\ IF ~InSeq("Goahead", custom_hits)
           THEN Printed("goahead_notice") = 0 /\ Printed("goahead_version") = 0
           ELSE IF goahead_version = None
           THEN Printed("goahead_notice") = 1 /\ Printed("goahead_version") = 0
           ELSE Printed("goahead_notice") = 0 /\ Printed("goahead_version") = 1

\* 'Goahead' detected in a tree without the library: the notice, once.
C7_Witness ==
    /\ pc = "done"
    /\ InSeq("Goahead", custom_hits)
    /\ ~LibPresent
    /\ calls["Goahead"] = 1
    /\ Printed("goahead_notice") = 1

\* Criterion (a): 'httpd' in the name, an execute bit, judged binary.
CriterionA(e) ==
    /\ \E i \in 1..Len(e.name) : OccursAt(lower(e.name), i, <<"h","t","t","p","d">>)
    /\ CanStat(e) /\ e.xbit
    /\ is_binary_file(e)
\* Criterion (b): the text holds one of the API references.
CriterionB(e) ==
    /\ CanOpen(e)
    /\ \E k \in { <<"c","g","i","M","a","i","n">>, <<"h","t","t","p","d","_","i","n","i","t">>, <<"w","e","b","s","F","o","r","m","D","e","f","i","n","e">>, <<"h","a","n","d","l","e","_","r","e","q","u","e","s","t">> } :
           \E i \in 1..Len(file_text(e.lines)) : OccursAt(file_text(e.lines), i, k)

\* C8: find_httpd_services returns exactly the union of the two criteria,
\* each evaluated on every entry that passes the filter.
C8_HttpdUnion ==
    Past("find_httpd_services") =>
        httpd_services =
            {str_path(e) : e \in {x \in Entries : PassedFilter(x) /\ CriterionA(x)}}
            \cup {str_path(e) : e \in {x \in Entries : PassedFilter(x) /\ CriterionB(x)}}

\* A file with 'httpd' in its name that fails (a) and is found by (b),
\* beside one found by (a).
C8_Witness ==
    /\ Past("find_httpd_services")
    /\ \E e, f \in Entries :
           /\ \E i \in 1..Len(e.name) : OccursAt(lower(e.name), i, <<"h","t","t","p","d">>)
           /\ ~CriterionA(e) /\ CriterionB(e)
           /\ str_path(e) \in httpd_services
           /\ CriterionA(f)
           /\ str_path(f) \in httpd_services

\* C9: no entry that is not a regular file is in a classification list, the
\* init.d list, the HTTPD services or the keyword hits, and every detected
\* NameContains label has a regular file to prove it.
C9_OnlyRegularFiles ==
    /\ \A e \in Entries :
           e.kind # "regular" =>
               /\ \A r \in 1..Len(patterns) : str_path(e) \notin Range(results[r])
               /\ str_path(e) \notin Range(init_scripts)
               /\ str_path(e) \notin httpd_services
               /\ \A i \in 1..Len(user_hits) : user_hits[i].path # str_path(e)
    /\ \A i \in 1..Len(custom_hits) :
           RuleOf(custom_hits[i]).mode = 1 =>
               \E e \in Entries :
                   e.kind = "regular" /\ PassedFilter(e) /\ Satisfies(e, RuleOf(custom_hits[i]))

\* The result of a probe is absent or empty.
NoResult(l) == IF l = "Goahead" THEN goahead_version = None ELSE files[l] = <<>>
\* The probe's external process failed: no executable, a non-zero exit
\* status, or output that is not valid text.
ProcFailed(l) ==
    \/ proc[l].outcome \in {"missing_executable", "killed", "undecodable"}
    \/ proc[l].returncode # None /\ proc[l].returncode # Some(0)
\* The run is at its end or at a step of main(), each of which can be
\* taken (no exception has ended it); and at its end the output that
\* follows the probes is there.
RunCompleted ==
    /\ pc \in Range(PcOrder)
    /\ pc = "done" =>
           /\ Printed("section") >= Len(patterns) + 2
           /\ Printed("hits") = 1
           /\ InSeq("lighttpd", custom_hits) =>
                  \E i \in 1..Len(out) :
                      out[i].kind = "section" /\ out[i].title = "lighttpd Permission Files"
           /\ InSeq("Goahead", custom_hits) /\ goahead_version = None =>
                  Printed("goahead_notice") = 1

\* C10, as stated: whenever a probe's external process failed, the probe's
\* result is absent or empty, and the run comes to its end.
C10_FailureIsNoResult ==
    /\ \A l \in ProbeLabels : ProcFailed(l) => NoResult(l)
    /\ RunCompleted

\* C10, amended: a missing executable, or a process killed before it wrote
\* anything, gives an absent or empty result; the exit status is not read
\* and undecodable bytes are dropped, so any other process gives the result
\* of the text it wrote; and the run comes to its end.
C10_FailureContained ==
    /\ \A l \in ProbeLabels :
           proc[l].outcome \in {"missing_executable", "killed"} => NoResult(l)
    /\ proc["nginx"].outcome \in {"ran", "undecodable"} =>
           files["nginx"] = nonempty_lines(grep_output(tree, <<"l","o","c","a","t","i","o","n"," ","/">>, TRUE, FALSE))
    /\ proc["lighttpd"].outcome \in {"ran", "undecodable"} =>
           files["lighttpd"] = nonempty_lines(grep_output(tree, <<"a","u","t","h",".","r","e","q","u","i","r","e">>, FALSE, TRUE))
    /\ RunCompleted

\* A run that ended after the grep of the lighttpd probe found no executable
\* and the strings of the version probe did: the section and the notice are
\* printed.
C10_Witness ==
    /\ pc = "done"
    /\ proc["lighttpd"].outcome = "missing_executable"
    /\ files["lighttpd"] = <<>>
    /\ \E i \in 1..Len(out) :
           /\ out[i].kind = "section"
           /\ out[i].title = "lighttpd Permission Files"
           /\ out[i].lines = << <<"N","o","n","e">> >>

\* ------------------------------------------------------------------ C11
\* The label whose deepening probe renders the output line o ("none" for
\* every other line).
ProbeLabelOf(o) ==
    CASE o.kind \in {"goahead_version", "goahead_notice"} -> "Goahead"
      [] o.kind = "nginx_routes" -> "nginx"
      [] o.kind = "section" ->
             IF o.title = "lighttpd Permission Files" THEN "lighttpd" ELSE "none"
      [] OTHER -> "none"
IsProbeOutput(o) == ProbeLabelOf(o) # "none"

\* C11: at most one summary line is rendered and it enumerates the labels
\* the signature scan confirmed; every deepening-probe output (the Goahead
\* version line or notice, the nginx route-file list, the lighttpd
\* permission-file section) comes after the summary line, and its label is
\* among the labels of that line; a run that has rendered no summary line
\* has rendered no probe output.
C11_ProbeOutputAfterSummary ==
    /\ Printed("summary") <= 1
    /\ \A j \in 1..Len(out) :
           out[j].kind = "summary" => out[j].labels = custom_hits /\ custom_hits # <<>>
    /\ \A i \in 1..Len(out) :
           IsProbeOutput(out[i]) =>
               \E j \in 1..(i - 1) :
                   /\ out[j].kind = "summary"
                   /\ InSeq(ProbeLabelOf(out[i]), out[j].labels)
    /\ Printed("summary") = 0 => \A i \in 1..Len(out) : ~IsProbeOutput(out[i])

\* A run that ended with the summary line, then the route-file list of the
\* nginx probe, then the notice of the Goahead probe.
C11_Witness ==
    /\ pc = "done"
    /\ \E j, i, k \in 1..Len(out) :
           /\ j < i /\ i < k
           /\ out[j].kind = "summary"
           /\ out[i].kind = "nginx_routes"
           /\ out[k].kind = "goahead_notice"

\* ------------------------------------------------------------------ C12
\* The passes that walk the tree once each, in the order main() runs them.
SingleWalkPasses ==
    << "find_files", "find_init_scripts", "find_httpd_services", "detect_user_keywords" >>
\* How many of them main() has gone past.
SingleWalksDone == Cardinality({i \in 1..Len(SingleWalkPasses) : Past(SingleWalkPasses[i])})

\* C12, as stated: the passes of a run start at most five walks of the tree.
C12_AtMostFiveWalks == walks <= 5

\* C12, amended: classification, the init.d scan, the httpd-service scan
\* and the keyword scan start one walk each, the signature scan starts one
\* walk for each rule of CUSTOM_PATTERNS (eight), and nothing after the
\* signature scan starts a walk: a run starts at most twelve walks, and a
\* run that has gone past the signature scan has started exactly twelve.
C12_WalkPerPassAndRule ==
    /\ Len(CUSTOM_PATTERNS) = 8
    /\ walks <= Len(SingleWalkPasses) + Len(CUSTOM_PATTERNS)
    /\ walks = SingleWalksDone
               + (IF Past("detect_custom_patterns") THEN Len(CUSTOM_PATTERNS) ELSE 0)

\* A run that ended, found a signature (so some rule's walk stopped early)
\* and started twelve walks.
C12_Witness ==
    /\ pc = "done"
    /\ custom_hits # <<>>
    /\ walks = 12

====
